---- MODULE Spec2Model ----
(***************************************************************************)
(* Book Catalog Service (src/index.js): an Express application holding one *)
(* in-memory array `books` and six routes over it.  JavaScript values are  *)
(* modelled as tagged records, strings as sequences of one-character       *)
(* strings, objects as functions from a fixed key set to values (the value *)
(* Undefined standing for "key not present").                              *)
(***************************************************************************)
EXTENDS Integers, Sequences, FiniteSets

VARIABLES books,   \* the array `books` (index.js:20)
          prev,    \* `books` as it was when the last request arrived
          req,     \* the last request: route, :id parameter, JSON body
          res,     \* the response sent to the last request
          served   \* number of requests handled so far

vars == <<books, prev, req, res, served>>

\* Number of requests handled in one explored run.
MaxRequests == 4

----------------------------------------------------------------------------
(* JavaScript values                                                       *)

Undefined == [t |-> "undefined", s |-> <<>>, n |-> 0]
Null      == [t |-> "null", s |-> <<>>, n |-> 0]
NaN       == [t |-> "nan", s |-> <<>>, n |-> 0]
Str(s)    == [t |-> "string", s |-> s, n |-> 0]
Num(n)    == [t |-> "number", s |-> <<>>, n |-> n]

\* Variant of Truthy: a presence test (`=== undefined`) in place of ToBoolean.
IsDefined(v) == v.t # "undefined"

\* ToBoolean, as applied by `!title`, `if (book)`.
Truthy(v) ==
    CASE v.t = "string"  -> Len(v.s) > 0
      [] v.t = "number"  -> v.n # 0
      [] v.t = "boolean" -> v.n = 1
      [] OTHER           -> FALSE

Digits == <<"0", "1", "2", "3", "4", "5", "6", "7", "8", "9">>
HexLower == <<"a", "b", "c", "d", "e", "f">>
HexUpper == <<"A", "B", "C", "D", "E", "F">>

\* Value of character c as a digit in the given radix, or -1.
DigitValue(c, radix) ==
    IF \E i \in 1..10 : Digits[i] = c
    THEN (CHOOSE i \in 1..10 : Digits[i] = c) - 1
    ELSE IF radix = 16 /\ \E i \in 1..6 : HexLower[i] = c
    THEN (CHOOSE i \in 1..6 : HexLower[i] = c) + 9
    ELSE IF radix = 16 /\ \E i \in 1..6 : HexUpper[i] = c
    THEN (CHOOSE i \in 1..6 : HexUpper[i] = c) + 9
    ELSE -1

RECURSIVE NatToString(_)
NatToString(n) ==
    IF n < 10 THEN <<Digits[n + 1]>>
    ELSE NatToString(n \div 10) \o <<Digits[(n % 10) + 1]>>

\* Number.prototype.toString() on an integer or NaN; String(v) otherwise.
ToString(v) ==
    CASE v.t = "string"    -> v.s
      [] v.t = "number"    -> IF v.n < 0 THEN <<"-">> \o NatToString(-v.n)
                              ELSE NatToString(v.n)
      [] v.t = "nan"       -> <<"N", "a", "N">>
      [] v.t = "null"      -> <<"n", "u", "l", "l">>
      [] v.t = "boolean"   -> IF v.n = 1 THEN <<"t", "r", "u", "e">>
                              ELSE <<"f", "a", "l", "s", "e">>
      [] OTHER             -> <<"u", "n", "d", "e", "f", "i", "n", "e", "d">>

RECURSIVE SkipSpaces(_)
SkipSpaces(s) ==
    IF Len(s) > 0 /\ Head(s) = " " THEN SkipSpaces(Tail(s)) ELSE s

\* Longest prefix of s made of digits of the radix, read as a number;
\* acc is the value so far, any says whether a digit was seen.
RECURSIVE ReadDigits(_, _, _, _)
ReadDigits(s, radix, acc, any) ==
    IF Len(s) > 0 /\ DigitValue(Head(s), radix) >= 0
    THEN ReadDigits(Tail(s), radix, acc * radix + DigitValue(Head(s), radix), TRUE)
    ELSE IF any THEN Num(acc) ELSE NaN

\* parseInt(v) with no radix argument: the argument is converted to a
\* string, leading blanks and one sign are skipped, a 0x/0X prefix selects
\* radix 16, and the longest digit prefix is read; NaN when there is none.
ParseInt(v) ==
    LET s0   == SkipSpaces(ToString(v))
        neg  == Len(s0) > 0 /\ Head(s0) = "-"
        s1   == IF Len(s0) > 0 /\ Head(s0) \in {"-", "+"} THEN Tail(s0) ELSE s0
        hex  == Len(s1) >= 2 /\ s1[1] = "0" /\ s1[2] \in {"x", "X"}
        mag  == IF hex THEN ReadDigits(Tail(Tail(s1)), 16, 0, FALSE)
                ELSE ReadDigits(s1, 10, 0, FALSE)
    IN  IF mag.t = "nan" THEN NaN
        ELSE IF neg THEN Num(-mag.n) ELSE mag

\* The binary + of a number and the number 1.
PlusOne(v) == IF v.t = "nan" THEN NaN ELSE Num(v.n + 1)

----------------------------------------------------------------------------
(* Objects                                                                 *)

\* Keys an object of the model can carry: the four of a book and one key
\* outside that schema.
Keys == {"id", "title", "author", "year", "genre"}

EmptyObject == [k \in Keys |-> Undefined]

\* Variant of Spread: a value of the second object is taken only when it is
\* truthy (`b[k] || a[k]`).
SpreadTruthy(a, b) == [k \in Keys |-> IF Truthy(b[k]) THEN b[k] ELSE a[k]]

\* Variant of Spread: the second object replaces the first (books[i] = updates).
SpreadReplace(a, b) == b

\* Object spread { ...a, ...b }.
Spread(a, b) == [k \in Keys |-> IF b[k] # Undefined THEN b[k] ELSE a[k]]

LOTR == <<"T", "h", "e", " ", "L", "o", "r", "d", " ", "o", "f", " ",
          "t", "h", "e", " ", "R", "i", "n", "g", "s">>
Tolkien == <<"J", ".", "R", ".", "R", ".", " ", "T", "o", "l", "k", "i", "e", "n">>
PrideAndPrejudice == <<"P", "r", "i", "d", "e", " ", "a", "n", "d", " ",
                       "P", "r", "e", "j", "u", "d", "i", "c", "e">>
Austen == <<"J", "a", "n", "e", " ", "A", "u", "s", "t", "e", "n">>

Book(id, title, author, year) ==
    [k \in Keys |-> CASE k = "id"     -> id
                      [] k = "title"  -> title
                      [] k = "author" -> author
                      [] k = "year"   -> year
                      [] OTHER        -> Undefined]

SeedBooks ==
    << Book(Str(<<"1">>), Str(LOTR), Str(Tolkien), Num(1954)),
       Book(Str(<<"2">>), Str(PrideAndPrejudice), Str(Austen), Num(1813)) >>

----------------------------------------------------------------------------
(* Helper functions                                                        *)

\* Variant of FindIndex: the last match (findLastIndex) in place of the first.
FindLastIndex(bs, id) ==
    IF \E i \in 1..Len(bs) : bs[i]["id"] = id
    THEN CHOOSE i \in 1..Len(bs) :
            /\ bs[i]["id"] = id
            /\ \A j \in (i + 1)..Len(bs) : bs[j]["id"] # id
    ELSE 0

\* Array.prototype.findIndex with `book => book.id === id`, 1-based;
\* 0 stands for -1.
FindIndex(bs, id) ==
    IF \E i \in 1..Len(bs) : bs[i]["id"] = id
    THEN CHOOSE i \in 1..Len(bs) :
            /\ bs[i]["id"] = id
            /\ \A j \in 1..(i - 1) : bs[j]["id"] # id
    ELSE 0

\* findBookById: the first book whose id === id, or undefined.
findBookById(bs, id) ==
    IF FindIndex(bs, id) = 0 THEN <<>> ELSE <<bs[FindIndex(bs, id)]>>

\* Variant of generateNewId: the id is counted from the first record.
generateNewIdFromFirst(bs) ==
    IF Len(bs) = 0 THEN Str(<<"1">>)
    ELSE Str(ToString(PlusOne(ParseInt(bs[1]["id"]))))

\* Variant of generateNewId: the next id counted from the array length.
generateNewIdFromLength(bs) == Str(ToString(Num(Len(bs) + 1)))

generateNewId(bs) ==
    IF Len(bs) = 0 THEN Str(<<"1">>)
    ELSE Str(ToString(PlusOne(ParseInt(bs[Len(bs)]["id"]))))

\* Array.prototype.filter with `book => book.id !== id`.
FilterOut(bs, id) == SelectSeq(bs, LAMBDA b : b["id"] # id)

----------------------------------------------------------------------------
(* Responses                                                               *)

Response(code, status, message, kind, data) ==
    [code |-> code, status |-> status, message |-> message,
     kind |-> kind, data |-> data]

\* res.status(c).json({status, message}) : no data member.
Plain(code, status, message) == Response(code, status, message, "none", <<>>)

\* One handler run: the array afterwards and the response.
Outcome(bs, r) == [books |-> bs, res |-> r]

----------------------------------------------------------------------------
(* Route handlers                                                          *)

\* Variant of GetBooks: the array is reversed in place (books.reverse())
\* before it is sent.
GetBooksReversing(bs) ==
    LET rev == [i \in 1..Len(bs) |-> bs[Len(bs) + 1 - i]]
    IN  IF Len(bs) > 0
        THEN Outcome(rev, [code |-> 200, status |-> "success",
                           message |-> "Successfully retrieved all books",
                           kind |-> "list", data |-> rev])
        ELSE Outcome(bs, [code |-> 404, status |-> "fail",
                          message |-> "No books found",
                          kind |-> "none", data |-> <<>>])

\* Variant of GetBooks: an empty array is sent as a success.
GetBooksAlwaysOk(bs) ==
    Outcome(bs, [code |-> 200, status |-> "success",
                 message |-> "Successfully retrieved all books",
                 kind |-> "list", data |-> bs])

\* GET /books
GetBooks(bs) ==
    IF Len(bs) > 0
    THEN Outcome(bs, Response(200, "success", "Successfully retrieved all books",
                              "list", bs))
    ELSE Outcome(bs, Plain(404, "fail", "No books found"))

\* GET /books/:id
GetBook(bs, id) ==
    LET book == findBookById(bs, id)
    IN  IF book # <<>>
        THEN Outcome(bs, Response(200, "success",
                                  "Successfully retrieved book with id ${id}",
                                  "book", book))
        ELSE Outcome(bs, Plain(404, "fail", "Book with id ${id} not found"))

\* Variant of PostBook: books.unshift(newBook) in place of books.push(newBook).
PostBookUnshift(bs, body) ==
    IF ~Truthy(body["title"]) \/ ~Truthy(body["author"]) \/ ~Truthy(body["year"])
    THEN Outcome(bs, Plain(400, "fail", "Title, author, and year are required"))
    ELSE LET newBook == Book(generateNewId(bs), body["title"], body["author"],
                             body["year"])
         IN  Outcome(<<newBook>> \o bs,
                     Response(201, "success", "Book added successfully",
                              "book", <<newBook>>))

\* Variant of PostBook: year is tested for presence (`year === undefined`)
\* and not for truthiness.
PostBookYearPresence(bs, body) ==
    IF ~Truthy(body["title"]) \/ ~Truthy(body["author"]) \/ body["year"] = Undefined
    THEN Outcome(bs, Plain(400, "fail", "Title, author, and year are required"))
    ELSE LET newBook == Book(generateNewId(bs), body["title"], body["author"],
                             body["year"])
         IN  Outcome(Append(bs, newBook),
                     Response(201, "success", "Book added successfully",
                              "book", <<newBook>>))

\* POST /books
PostBook(bs, body) ==
    LET title  == body["title"]
        author == body["author"]
        year   == body["year"]
    IN  IF ~Truthy(title) \/ ~Truthy(author) \/ ~Truthy(year)
        THEN Outcome(bs, Plain(400, "fail", "Title, author, and year are required"))
        ELSE LET newBook == Book(generateNewId(bs), title, author, year)
             IN  Outcome(Append(bs, newBook),
                         Response(201, "success", "Book added successfully",
                                  "book", <<newBook>>))

\* Variant of PutBook: the body is validated before the record is looked up.
PutBookValidateFirst(bs, id, body) ==
    LET bookIndex == FindIndex(bs, id)
    IN  IF ~Truthy(body["title"]) \/ ~Truthy(body["author"]) \/ ~Truthy(body["year"])
        THEN Outcome(bs, Plain(400, "fail",
               "Title, author, and year are required for a complete update"))
        ELSE IF bookIndex # 0
        THEN LET bs2 == [bs EXCEPT ![bookIndex] =
                            [bs[bookIndex] EXCEPT !["title"] = body["title"],
                                                  !["author"] = body["author"],
                                                  !["year"] = body["year"]]]
             IN  Outcome(bs2, Response(200, "success",
                   "Book with id ${id} updated successfully (full update)",
                   "book", <<bs2[bookIndex]>>))
        ELSE Outcome(bs, Plain(404, "fail", "Book with id ${id} not found"))

\* PUT /books/:id
PutBook(bs, id, body) ==
    LET title     == body["title"]
        author    == body["author"]
        year      == body["year"]
        bookIndex == FindIndex(bs, id)
    IN  IF bookIndex # 0
        THEN IF ~Truthy(title) \/ ~Truthy(author) \/ ~Truthy(year)
             THEN Outcome(bs, Plain(400, "fail",
                    "Title, author, and year are required for a complete update"))
             ELSE LET updated == [bs[bookIndex] EXCEPT !["title"] = title,
                                                      !["author"] = author,
                                                      !["year"] = year]
                      bs2     == [bs EXCEPT ![bookIndex] = updated]
                  IN  Outcome(bs2, Response(200, "success",
                        "Book with id ${id} updated successfully (full update)",
                        "book", <<bs2[bookIndex]>>))
        ELSE Outcome(bs, Plain(404, "fail", "Book with id ${id} not found"))

\* PATCH /books/:id
PatchBook(bs, id, updates) ==
    LET bookIndex == FindIndex(bs, id)
    IN  IF bookIndex # 0
        THEN LET bs2 == [bs EXCEPT ![bookIndex] = Spread(bs[bookIndex], updates)]
             IN  Outcome(bs2, Response(200, "success",
                   "Book with id ${id} updated successfully (partial update)",
                   "book", <<bs2[bookIndex]>>))
        ELSE Outcome(bs, Plain(404, "fail", "Book with id ${id} not found"))

\* Variant of DeleteBook: the success response carries the removed records.
DeleteBookWithData(bs, id) ==
    LET bs2 == FilterOut(bs, id)
    IN  IF Len(bs2) < Len(bs)
        THEN Outcome(bs2, Response(200, "success",
                                   "Book with id ${id} deleted successfully",
                                   "list", SelectSeq(bs, LAMBDA b : b["id"] = id)))
        ELSE Outcome(bs2, Plain(404, "fail", "Book with id ${id} not found"))

\* Variant of DeleteBook: books.splice(findIndex(...), 1) with no test of the
\* index; splice(-1, 1) removes the last element.
DeleteBookSplice(bs, id) ==
    LET bookIndex == FindIndex(bs, id)
        at        == IF bookIndex = 0 THEN Len(bs) ELSE bookIndex
        bs2       == IF Len(bs) = 0 THEN bs
                     ELSE SubSeq(bs, 1, at - 1) \o SubSeq(bs, at + 1, Len(bs))
    IN  IF Len(bs2) < Len(bs)
        THEN Outcome(bs2, Plain(200, "success",
                                "Book with id ${id} deleted successfully"))
        ELSE Outcome(bs2, Plain(404, "fail", "Book with id ${id} not found"))

\* DELETE /books/:id
DeleteBook(bs, id) ==
    LET initialLength == Len(bs)
        bs2           == FilterOut(bs, id)
    IN  IF Len(bs2) < initialLength
        THEN Outcome(bs2, Plain(200, "success",
                                "Book with id ${id} deleted successfully"))
        ELSE Outcome(bs2, Plain(404, "fail", "Book with id ${id} not found"))

----------------------------------------------------------------------------
(* Requests explored                                                       *)

\* :id parameters of the requests (always strings, taken from the URL).
IdParams == { Str(<<"1">>), Str(<<"2">>), Str(<<"3">>), Str(<<"N", "a", "N">>) }

Object(id, title, author, year, genre) ==
    [k \in Keys |-> CASE k = "id"     -> id
                      [] k = "title"  -> title
                      [] k = "author" -> author
                      [] k = "year"   -> year
                      [] OTHER        -> genre]

Dune == <<"D", "u", "n", "e">>
Herbert == <<"H", "e", "r", "b", "e", "r", "t">>

\* JSON bodies sent to POST: two complete ones (one of them with keys the
\* handler does not read), and bodies in which one of title, author, year
\* is missing, null, "" or 0.
PostBodies ==
    { Object(Undefined, Str(Dune), Str(Herbert), Num(1965), Undefined),
      Object(Str(<<"2">>), Str(<<"X">>), Str(<<"Y">>), Num(1), Str(<<"g">>)),
      Object(Undefined, Undefined, Str(Herbert), Num(1965), Undefined),
      Object(Undefined, Str(<<>>), Str(Herbert), Num(1965), Undefined),
      Object(Undefined, Str(Dune), Null, Num(1965), Undefined),
      Object(Undefined, Str(Dune), Str(Herbert), Num(0), Undefined),
      Object(Undefined, Str(Dune), Str(Herbert), Undefined, Undefined),
      EmptyObject }

\* JSON bodies sent to PUT: a complete one carrying an id and a genre key as
\* well, and incomplete ones.
PutBodies ==
    { Object(Str(<<"2">>), Str(<<"X">>), Str(<<"Y">>), Num(1), Str(<<"g">>)),
      Object(Undefined, Undefined, Str(<<"Y">>), Num(1), Undefined),
      Object(Undefined, Str(<<"X">>), Str(<<>>), Num(1), Undefined),
      Object(Str(<<"2">>), Str(<<"X">>), Str(<<"Y">>), Num(0), Undefined),
      Object(Undefined, Str(<<"X">>), Null, Undefined, Undefined) }

\* JSON bodies sent to PATCH.
PatchBodies ==
    { EmptyObject,
      Object(Str(<<"1">>), Undefined, Undefined, Undefined, Undefined),
      Object(Str(<<"a">>), Undefined, Undefined, Undefined, Undefined),
      Object(Undefined, Str(<<>>), Undefined, Num(0), Str(<<"g">>)) }

NoId == Undefined

Request(route, id, body) == [route |-> route, id |-> id, body |-> body]

----------------------------------------------------------------------------
(* State machine                                                           *)

Init ==
    /\ books = SeedBooks
    /\ prev = SeedBooks
    /\ req = Request("none", NoId, EmptyObject)
    /\ res = Plain(0, "none", "")
    /\ served = 0

\* One request handled to completion: handlers contain no suspension point.
Handle(r, out) ==
    /\ served < MaxRequests
    /\ prev' = books
    /\ req' = r
    /\ books' = out.books
    /\ res' = out.res
    /\ served' = served + 1

List == Handle(Request("GET /books", NoId, EmptyObject), GetBooks(books))

Get == \E id \in IdParams :
          Handle(Request("GET /books/:id", id, EmptyObject), GetBook(books, id))

Create == \E body \in PostBodies :
          Handle(Request("POST /books", NoId, body), PostBook(books, body))

Put == \E id \in IdParams, body \in PutBodies :
          Handle(Request("PUT /books/:id", id, body), PutBook(books, id, body))

Patch == \E id \in IdParams, body \in PatchBodies :
          Handle(Request("PATCH /books/:id", id, body), PatchBook(books, id, body))

Delete == \E id \in IdParams :
          Handle(Request("DELETE /books/:id", id, EmptyObject), DeleteBook(books, id))

Next == List \/ Get \/ Create \/ Put \/ Patch \/ Delete

Spec == Init /\ [][Next]_vars

\* The application when no PATCH body carries an id key.
PatchBodiesWithoutId == {b \in PatchBodies : b["id"] = Undefined}

PatchKeepingId == \E id \in IdParams, body \in PatchBodiesWithoutId :
          Handle(Request("PATCH /books/:id", id, body), PatchBook(books, id, body))

NextKeepingId == List \/ Get \/ Create \/ Put \/ PatchKeepingId \/ Delete

SpecKeepingId == Init /\ [][NextKeepingId]_vars

\* The application when clients send Create and Delete requests only.  Every
\* handler runs to completion without a suspension point, so a request that
\* can be handled is handled.
NextCreateDelete == Create \/ Delete

SpecCreateDelete ==
    Init /\ [][NextCreateDelete]_vars /\ WF_vars(NextCreateDelete)

----------------------------------------------------------------------------
(* Vocabulary of the properties                                            *)

IsPost   == req.route = "POST /books"
IsPut    == req.route = "PUT /books/:id"
IsPatch  == req.route = "PATCH /books/:id"
IsDelete == req.route = "DELETE /books/:id"
IsGet    == req.route = "GET /books/:id"
IsList   == req.route = "GET /books"

Required == {"title", "author", "year"}

\* The values the specification calls falsy: missing, null, "", 0.
Falsy == {Undefined, Null, Str(<<>>), Num(0)}

Ids(bs) == [i \in 1..Len(bs) |-> bs[i]["id"]]

\* s can be obtained from t by removing elements, the rest kept in order.
RECURSIVE IsSubsequence(_, _)
IsSubsequence(s, t) ==
    IF s = <<>> THEN TRUE
    ELSE IF t = <<>> THEN FALSE
    ELSE IF Head(s) = Head(t) THEN IsSubsequence(Tail(s), Tail(t))
    ELSE IsSubsequence(s, Tail(t))

\* The id of the i-th book of bs is the decimal numeral of n.
IdIsNumeral(bs, i, n) == bs[i]["id"] = Str(NatToString(n))

\* The id of the i-th book of bs read as an integer (parseInt).
IdValue(bs, i) == ParseInt(bs[i]["id"]).n

IdIsNumber(bs, i) == ParseInt(bs[i]["id"]).t = "number"

\* The last record of bs does not hold the numerically largest id.
LastNotGreatest(bs) ==
    /\ Len(bs) > 0
    /\ \E i \in 1..Len(bs) : IdValue(bs, i) > IdValue(bs, Len(bs))

\* i is the position of the first record of bs whose id is id.
IsFirstMatch(bs, i, id) ==
    /\ bs[i]["id"] = id
    /\ \A j \in 1..(i - 1) : bs[j]["id"] # id

\* The largest id of bs read as an integer.
MaxIdValue(bs) ==
    CHOOSE m \in {IdValue(bs, i) : i \in 1..Len(bs)} :
        \A i \in 1..Len(bs) : IdValue(bs, i) <= m

\* Numbers an id can stand for within the explored runs.
IdRange == 0..(MaxRequests + 3)

----------------------------------------------------------------------------
(* C1: in every reachable state no two records of the collection have the  *)
(* same id.  Stated as written; PATCH with an id key in its body refutes   *)
(* it.                                                                     *)
C1_UniqueIds ==
    \A i, j \in 1..Len(books) : i # j => books[i]["id"] # books[j]["id"]

(* C2: a Create with truthy title, author and year returns a Book whose id *)
(* differs from the id of every record held before the request, and the    *)
(* collection is one longer than before.  Stated as written.               *)
C2_CreateIdFresh ==
    (IsPost /\ \A k \in Required : req.body[k] \notin Falsy)
    => /\ res.code = 201
       /\ Len(books) = Len(prev) + 1
       /\ \A i \in 1..Len(prev) : prev[i]["id"] # res.data[1]["id"]

(* C3: a Get-by-id right after a successful Create, with the id Create     *)
(* returned, answers 200 with the submitted title, author and year.        *)
(* Stated as written.                                                      *)
C3_GetAfterCreate ==
    (IsPost /\ res.code = 201)
    => LET got == GetBook(books, res.data[1]["id"]).res
       IN  /\ got.code = 200
           /\ got.kind = "book"
           /\ \A k \in Required : got.data[1][k] = req.body[k]

(* C4: after a successful PUT or PATCH the updated record has the id it    *)
(* had before, whatever the body.  Stated as written.                      *)
C4_IdImmutable ==
    ((IsPut \/ IsPatch) /\ res.code = 200)
    => LET i == FindIndex(prev, req.id)
       IN  books[i]["id"] = prev[i]["id"]

(* C5: the collection stays in insertion order: Create puts the new record *)
(* at the end behind all earlier ones, PUT and PATCH keep every record at  *)
(* its position, Delete leaves the remaining records in the order they     *)
(* had, and nothing else touches the array.                                *)
C5_InsertionOrderKept ==
    /\ (IsPost /\ res.code = 201)
          => /\ Len(books) = Len(prev) + 1
             /\ SubSeq(books, 1, Len(prev)) = prev
             /\ books[Len(books)] = res.data[1]
    /\ ((IsPut \/ IsPatch) /\ res.code = 200)
          => /\ Len(books) = Len(prev)
             /\ \A i \in 1..Len(prev) :
                    i # FindIndex(prev, req.id) => books[i] = prev[i]
    /\ IsDelete
          => /\ IsSubsequence(books, prev)
             /\ \A i \in 1..Len(prev) :
                    prev[i]["id"] # req.id
                    => \E j \in 1..Len(books) : books[j] = prev[i]
    /\ (res.code \notin {200, 201} \/ ~(IsPost \/ IsPut \/ IsPatch \/ IsDelete))
          => books = prev

C5_Witness ==
    /\ IsDelete /\ res.code = 200
    /\ Len(prev) = 3 /\ Len(books) = 2
    /\ books = <<prev[1], prev[3]>>

(* C6: a Create, or a PUT addressed to an existing id, in which one of     *)
(* title, author, year is missing, null, "" or 0 is answered 400 "fail"    *)
(* and leaves the collection exactly as it was.                            *)
C6_ValidationFailureChangesNothing ==
    ( /\ IsPost \/ (IsPut /\ \E i \in 1..Len(prev) : prev[i]["id"] = req.id)
      /\ \E k \in Required : req.body[k] \in Falsy )
    => /\ res.code = 400
       /\ res.status = "fail"
       /\ books = prev

C6_Witness ==
    /\ IsPut
    /\ req.body["title"] \notin Falsy /\ req.body["author"] \notin Falsy
    /\ req.body["year"] = Num(0)
    /\ \E i \in 1..Len(prev) : prev[i]["id"] = req.id
    /\ res.code = 400

(* C7: a Delete whose id matches a record answers 200, shortens the        *)
(* collection by exactly one, and a Get on that id right after answers     *)
(* 404.  Stated as written.                                                *)
C7_DeleteRemovesOne ==
    (IsDelete /\ \E i \in 1..Len(prev) : prev[i]["id"] = req.id)
    => /\ res.code = 200
       /\ Len(books) = Len(prev) - 1
       /\ GetBook(books, req.id).res.code = 404

(* C8: a Delete whose id matches no record answers 404 "fail" and leaves   *)
(* the length of the collection and every record in it unchanged.          *)
C8_DeleteMissingChangesNothing ==
    (IsDelete /\ \A i \in 1..Len(prev) : prev[i]["id"] # req.id)
    => /\ res.code = 404
       /\ res.status = "fail"
       /\ Len(books) = Len(prev)
       /\ books = prev

C8_Witness ==
    /\ IsDelete
    /\ Len(prev) > 0
    /\ \A i \in 1..Len(prev) : prev[i]["id"] # req.id
    /\ res.code = 404

(* C9: List answers 200 with all records in their current order exactly    *)
(* when the collection is not empty, and 404 "fail" without data when it   *)
(* is empty.                                                               *)
C9_ListContract ==
    IsList
    => /\ books = prev
       /\ IF Len(prev) > 0
          THEN /\ res.code = 200 /\ res.status = "success"
               /\ res.kind = "list" /\ res.data = prev
          ELSE /\ res.code = 404 /\ res.status = "fail"
               /\ res.kind = "none"

C9_Witness ==
    /\ IsList
    /\ Len(prev) = 0
    /\ res.code = 404

(* C10: the id Create assigns is "1" on an empty collection and otherwise  *)
(* the integer read from the id of the last record, plus one, as a string  *)
(* (not the largest id plus one); from ids "1","2" it is "3" and from ids  *)
(* "2","3" it is "4".                                                      *)
C10_NewIdFromLast ==
    (IsPost /\ res.code = 201)
    => LET newId == res.data[1]["id"]
           n     == Len(prev)
       IN  /\ n = 0 => newId = Str(<<"1">>)
           /\ n > 0 => newId = Str(ToString(PlusOne(ParseInt(prev[n]["id"]))))
           /\ \A v \in IdRange :
                 (n > 0 /\ IdIsNumeral(prev, n, v)) => newId = Str(NatToString(v + 1))
           /\ Ids(prev) = <<Str(<<"1">>), Str(<<"2">>)>> => newId = Str(<<"3">>)
           /\ Ids(prev) = <<Str(<<"2">>), Str(<<"3">>)>> => newId = Str(<<"4">>)

\* Create on a collection whose last record does not hold the largest id.
C10_Witness ==
    /\ IsPost /\ res.code = 201
    /\ Len(prev) = 3
    /\ IdIsNumeral(prev, 2, 2) /\ IdIsNumeral(prev, 3, 1)
    /\ res.data[1]["id"] = Str(<<"2">>)

(* C11: Create is accepted (201, the new record appended) exactly when     *)
(* title, author and year are all truthy; when one of them is missing,     *)
(* null, "" or 0 it is rejected with 400 and no record is added.           *)
C11_CreateAcceptedIffTruthy ==
    IsPost
    => IF \A k \in Required : req.body[k] \notin Falsy
       THEN /\ res.code = 201
            /\ Len(books) = Len(prev) + 1
            /\ \A k \in Required : books[Len(books)][k] = req.body[k]
       ELSE /\ res.code = 400
            /\ books = prev

C11_Witness ==
    /\ IsPost
    /\ req.body["title"] \notin Falsy /\ req.body["author"] \notin Falsy
    /\ req.body["year"] = Num(0)
    /\ res.code = 400
    /\ Len(books) = Len(prev)

(* C12: a PATCH with the empty body {} addressed to an existing id answers *)
(* 200 "success" and leaves that record and the rest of the collection     *)
(* unchanged.                                                              *)
C12_EmptyPatchChangesNothing ==
    ( /\ IsPatch
      /\ req.body = EmptyObject
      /\ \E i \in 1..Len(prev) : prev[i]["id"] = req.id )
    => /\ res.code = 200
       /\ res.status = "success"
       /\ books = prev

C12_Witness ==
    /\ IsPatch
    /\ req.body = EmptyObject
    /\ \E i \in 1..Len(prev) : prev[i]["id"] = req.id
    /\ res.code = 200

(* C13: the response carries a data member exactly when its status is      *)
(* "success" and the route is not Delete; every "fail" response (400 or    *)
(* 404) carries none.                                                      *)
C13_DataIffSuccessNotDelete ==
    (req.route # "none")
    => /\ (res.kind # "none") <=> (res.status = "success" /\ ~IsDelete)
       /\ res.status \in {"success", "fail"}
       /\ (res.status = "fail") <=> (res.code \in {400, 404})
       /\ (res.kind # "none") => Len(res.data) > 0

C13_Witness ==
    /\ IsDelete
    /\ res.code = 200 /\ res.status = "success"
    /\ res.kind = "none"

(* C14: a PUT whose id matches no record is answered 404 whatever its      *)
(* body, a body with missing or falsy fields included; 400 is returned     *)
(* only when the id matches a record.                                      *)
C14_PutExistenceBeforeValidity ==
    IsPut
    => /\ (\A i \in 1..Len(prev) : prev[i]["id"] # req.id) => res.code = 404
       /\ res.code = 400 => \E i \in 1..Len(prev) : prev[i]["id"] = req.id

C14_Witness ==
    /\ IsPut
    /\ \A i \in 1..Len(prev) : prev[i]["id"] # req.id
    /\ \E k \in Required : req.body[k] \in Falsy
    /\ res.code = 404

C16_PatchIsOverlay ==
    (IsPatch /\ res.code = 200)
    => \E i \in 1..Len(prev) :
          /\ IsFirstMatch(prev, i, req.id)
          /\ \A k \in Keys :
                books[i][k] = IF req.body[k] # Undefined THEN req.body[k]
                              ELSE prev[i][k]
          /\ res.data = <<books[i]>>

C16_Witness ==
    /\ IsPatch /\ res.code = 200
    /\ req.body["title"] = Str(<<>>) /\ req.body["year"] = Num(0)
    /\ req.body["genre"] = Str(<<"g">>) /\ req.body["author"] = Undefined
    /\ \E i \in 1..Len(prev) :
          /\ IsFirstMatch(prev, i, req.id)
          /\ prev[i]["genre"] = Undefined /\ books[i]["genre"] = Str(<<"g">>)
          /\ books[i]["title"] = Str(<<>>) /\ books[i]["year"] = Num(0)
          /\ books[i]["author"] = prev[i]["author"]
          /\ books[i]["id"] = prev[i]["id"]

(* C17: as long as no PATCH supplies an id key, the ids read as integers   *)
(* are strictly increasing in collection order; hence they are pairwise    *)
(* distinct, the last record holds the largest id, and the id Create       *)
(* assigns is the largest id plus one.                                     *)
C17_IdsStrictlyIncreasing ==
    /\ \A i \in 1..Len(books) : IdIsNumber(books, i)
    /\ \A i \in 1..(Len(books) - 1) : IdValue(books, i) < IdValue(books, i + 1)
    /\ \A i, j \in 1..Len(books) : i # j => books[i]["id"] # books[j]["id"]
    /\ Len(books) > 0 => IdValue(books, Len(books)) = MaxIdValue(books)
    /\ (IsPost /\ res.code = 201 /\ Len(prev) > 0)
          => res.data[1]["id"] = Str(NatToString(MaxIdValue(prev) + 1))

\* A Create on a collection with a gap left by Delete and a patched record.
C17_Witness ==
    /\ IsPost /\ res.code = 201
    /\ Len(prev) = 2
    /\ IdIsNumeral(prev, 1, 2) /\ IdIsNumeral(prev, 2, 3)
    /\ prev[2]["genre"] = Str(<<"g">>)
    /\ IdIsNumeral(books, 3, 4)

(* C18: a PUT or PATCH never changes the length of the collection and      *)
(* changes at most one record, the first in collection order whose id is   *)
(* the requested id; every other record, a later one with the same id      *)
(* included, is unchanged.  Delete removes every record with that id.      *)
C18_UpdateTouchesFirstMatchOnly ==
    /\ (IsPut \/ IsPatch)
          => /\ Len(books) = Len(prev)
             /\ \A i \in 1..Len(prev) :
                    books[i] # prev[i] => IsFirstMatch(prev, i, req.id)
    /\ IsDelete
          => /\ \A i \in 1..Len(books) : books[i]["id"] # req.id
             /\ Len(books) = Cardinality({i \in 1..Len(prev) : prev[i]["id"] # req.id})

\* An update addressed to an id that two records hold.
C18_Witness ==
    /\ (IsPut \/ IsPatch) /\ res.code = 200
    /\ \E i, j \in 1..Len(prev) :
          /\ i < j
          /\ prev[i]["id"] = req.id /\ prev[j]["id"] = req.id
          /\ books[i] # prev[i]
          /\ books[j] = prev[j]

(* C19: List and Get-by-id are read-only: whatever the outcome, the         *)
(* collection after the request is the collection before it, so the same   *)
(* request repeated at once gets the same response.                        *)
C19_ReadsChangeNothing ==
    /\ IsList => /\ books = prev
                 /\ res.code \in {200, 404}
                 /\ GetBooks(books).res = res
    /\ IsGet  => /\ books = prev
                 /\ res.code \in {200, 404}
                 /\ GetBook(books, req.id).res = res

C19_Witness ==
    /\ IsList
    /\ res.code = 200
    /\ Len(res.data) >= 2
    /\ books = prev

====
